---- MODULE Spec2Model ----
(***************************************************************************)
(* africa_research_base: an Anchor program with two instructions,          *)
(* initialize and create_dataset, over three kinds of program-owned        *)
(* accounts: Registry (one per admin), Dataset (one address per            *)
(* contributor) and Reputation (one per contributor).                      *)
(*                                                                         *)
(* One action is one transaction: account resolution by the Accounts       *)
(* struct, the handler body, and the write-back of the accounts declared   *)
(* `mut` or `init` when the handler returns Ok.  A transaction that        *)
(* returns Err or panics commits nothing.                                  *)
(***************************************************************************)
EXTENDS Integers, Sequences, FiniteSets, TLC

\* ---------------------------------------------------------------- bounds
MaxClock == 2

\* ------------------------------------------------------- program constants
MAX_FILE_NAME_LEN == 100
MAX_QUALITY_SCORE == 100
MAX_FILE_SIZE == 104857600
LIMB == 65536
U32_LIMBS == 2
U64_LIMBS == 4

\* ------------------------------------------------------------- identities
\* Pubkeys are small integers; 0 stands for Pubkey::default().
Admins == {1, 2}
Contributors == {101, 102}
DefaultPubkey == 0

\* seeds = [b"registry"]: one address for every admin
RegistryPda_global(admin) == <<"registry", 0>>

\* seeds = [b"dataset"]: one address for every contributor
DatasetPda_shared(contributor) == <<"dataset", 0>>

\* Program derived addresses, from the seeds of the Accounts struct.
RegistryPda(admin) == <<"registry", admin>>
DatasetPda(contributor) == <<"dataset", contributor>>
ReputationPda(contributor) == <<"reputation", contributor>>

Pdas ==
    {RegistryPda(a) : a \in Admins}
        \cup {DatasetPda(c) : c \in Contributors}
        \cup {ReputationPda(c) : c \in Contributors}

\* --------------------------------------------- fixed-width unsigned integers
\* A u32 / u64 is a little-endian sequence of 16-bit limbs, so that the
\* values next to the top of the range are representable.
ToUint(n, limbs) ==
    [i \in 1..limbs |-> IF i = 1 THEN n % LIMB
                        ELSE IF i = 2 THEN n \div LIMB
                        ELSE 0]

\* MAX - d of the type, for 0 <= d < LIMB
UintMaxMinus(d, limbs) ==
    [i \in 1..limbs |-> IF i = 1 THEN LIMB - 1 - d ELSE LIMB - 1]

RECURSIVE Carry(_, _, _)
Carry(a, b, i) ==
    IF i = 0 THEN 0 ELSE (a[i] + b[i] + Carry(a, b, i - 1)) \div LIMB

\* uN::wrapping_add
wrapping_add(a, b) ==
    [i \in 1..Len(a) |-> (a[i] + b[i] + Carry(a, b, i - 1)) % LIMB]

\* uN::checked_add: None on overflow, Some(sum) otherwise
checked_add(a, b) ==
    IF Carry(a, b, Len(a)) > 0
    THEN [some |-> FALSE, val |-> a]
    ELSE [some |-> TRUE,
          val  |-> [i \in 1..Len(a) |-> (a[i] + b[i] + Carry(a, b, i - 1)) % LIMB]]

\* ------------------------------------------------------------------ inputs
\* A byte string (Vec<u8>, [u8; N]) of n bytes, all equal to b, kept as its
\* length and that byte.
Bytes(n, b) == [len |-> n, byte |-> b]

FileNames == {Bytes(MAX_FILE_NAME_LEN, 97), Bytes(MAX_FILE_NAME_LEN + 1, 97)}
QualityScores == {50, MAX_QUALITY_SCORE, MAX_QUALITY_SCORE + 1}
FileSizes == {MAX_FILE_SIZE, MAX_FILE_SIZE + 1}
ContentHashes == {Bytes(32, 1)}
Clocks == 1..MaxClock

\* The arguments of CreateDataset::create_dataset
Args ==
    [content_hash  : ContentHashes,
     ai_metadata   : {Bytes(3, 7)},
     file_name     : FileNames,
     file_size     : FileSizes,
     data_uri      : {Bytes(256, 0)},
     column_count  : {4},
     row_count     : {20},
     quality_score : QualityScores]

\* What a caller may offer at the program entry point for the four fields
\* the handler derives itself.
Offered ==
    {[upload_timestamp |-> 0, last_updated |-> <<7>>, download_count |-> 9,
      is_active |-> FALSE]}

NoArgs == [content_hash |-> Bytes(0, 0), ai_metadata |-> Bytes(0, 0),
           file_name |-> Bytes(0, 0), file_size |-> 0, data_uri |-> Bytes(0, 0),
           column_count |-> 0, row_count |-> 0, quality_score |-> 0]

NoOffer == [upload_timestamp |-> 0, last_updated |-> <<>>, download_count |-> 0,
            is_active |-> FALSE]

\* ------------------------------------------------------------------- state
VARIABLES
    registry,    \* address -> Registry account, for the addresses in use
    dataset,     \* address -> Dataset account, for the addresses in use
    reputation,  \* address -> Reputation account, for the addresses in use
    lastCall,    \* the last instruction processed: its inputs and its result
    initial,     \* Registry address -> total_datasets when the account was first seen
    successes,   \* Registry address -> number of create_dataset calls that returned Ok
    writers      \* address -> the (admin, contributor) of the calls that wrote it

vars == <<registry, dataset, reputation, lastCall, initial, successes, writers>>

\* Registry account (state/registry.rs is not among the sources)
Registry(owner, total_datasets) ==
    [owner |-> owner, total_datasets |-> total_datasets, bump |-> 255]

\* Reputation account, state/reputation.rs
Reputation(contributor, total_uploads, total_quality_score) ==
    [contributor         |-> contributor,
     total_uploads       |-> total_uploads,
     download_time       |-> 11,
     total_quality_score |-> total_quality_score,
     total_downloads     |-> ToUint(3, U64_LIMBS),
     total_citations     |-> ToUint(4, U32_LIMBS),
     reputation_score    |-> ToUint(5, U32_LIMBS),
     bump                |-> 254]

FreshReputation == Reputation(DefaultPubkey, ToUint(0, U32_LIMBS), ToUint(0, U64_LIMBS))

FirstAdmin == CHOOSE a \in Admins : \A b \in Admins : a <= b
FirstContributor == CHOOSE c \in Contributors : \A d \in Contributors : c <= d

Ledger(regs, reps) == [registry |-> regs, reputation |-> reps]

\* Ledgers with no counter near the top of its range: the first admin has a
\* Registry or nobody has; the first contributor's Reputation is used or missing.
FreshLedgers ==
    {Ledger([x \in {RegistryPda(FirstAdmin)} |-> Registry(FirstAdmin, ToUint(0, U64_LIMBS))],
            [x \in {ReputationPda(c) : c \in Contributors} |->
                IF x = ReputationPda(FirstContributor)
                THEN Reputation(FirstContributor, ToUint(7, U32_LIMBS), ToUint(420, U64_LIMBS))
                ELSE FreshReputation]),
     Ledger([x \in {} |-> FreshReputation],
            [x \in {ReputationPda(c) : c \in Contributors \ {FirstContributor}} |->
                FreshReputation])}

\* Ledgers with one counter at or next to the top of its range: the first
\* admin's total_datasets at u64::MAX - 1 or u64::MAX, the first contributor's
\* total_uploads at u32::MAX, or its total_quality_score at u64::MAX - 60.
OverflowLedgers ==
    {Ledger([x \in {RegistryPda(FirstAdmin)} |-> Registry(FirstAdmin, t)],
            [x \in {ReputationPda(c) : c \in Contributors} |-> FreshReputation]) :
        t \in {UintMaxMinus(1, U64_LIMBS), UintMaxMinus(0, U64_LIMBS)}}
    \cup
    {Ledger([x \in {RegistryPda(FirstAdmin)} |-> Registry(FirstAdmin, ToUint(0, U64_LIMBS))],
            [x \in {ReputationPda(c) : c \in Contributors} |->
                IF x = ReputationPda(FirstContributor) THEN r ELSE FreshReputation]) :
        r \in {Reputation(FirstContributor, UintMaxMinus(0, U32_LIMBS), ToUint(0, U64_LIMBS)),
               Reputation(FirstContributor, ToUint(7, U32_LIMBS), UintMaxMinus(60, U64_LIMBS))}}

Call(op, result, admin, contributor, args, offered, now) ==
    [op |-> op, result |-> result, admin |-> admin, contributor |-> contributor,
     args |-> args, offered |-> offered, now |-> now]

InitFrom(ledgers) ==
    /\ \E l \in ledgers :
         /\ registry = l.registry
         /\ reputation = l.reputation
         /\ initial = [x \in {RegistryPda(a) : a \in Admins} |->
                         IF x \in DOMAIN l.registry THEN l.registry[x].total_datasets
                         ELSE ToUint(0, U64_LIMBS)]
    /\ dataset = [x \in {} |-> FreshReputation]
    /\ lastCall = Call("none", "Ok", DefaultPubkey, DefaultPubkey, NoArgs, NoOffer, 0)
    /\ successes = [x \in {RegistryPda(a) : a \in Admins} |-> 0]
    /\ writers = [x \in Pdas |-> {}]

Init == InitFrom(FreshLedgers)

InitOverflow == InitFrom(OverflowLedgers)

\* init_if_needed in place of init: an existing Registry is initialised again
initialize_reset(admin) ==
    /\ registry' =
          [x \in DOMAIN registry \cup {RegistryPda(admin)} |->
              IF x = RegistryPda(admin) THEN Registry(admin, ToUint(0, U64_LIMBS))
              ELSE registry[x]]
    /\ lastCall' = Call("initialize", "Ok", admin, DefaultPubkey, NoArgs, NoOffer, 0)
    /\ UNCHANGED <<dataset, reputation, initial, successes, writers>>

\* ------------------------------------------------------------- initialize
\* lib.rs hands over to initialize::handler, which is not among the sources:
\* create the admin's Registry if the address is free, fail otherwise.
initialize(admin) ==
    \E result \in {IF RegistryPda(admin) \in DOMAIN registry
                   THEN "AccountAlreadyInUse" ELSE "Ok"} :
       /\ registry' =
             IF result = "Ok"
             THEN [x \in DOMAIN registry \cup {RegistryPda(admin)} |->
                       IF x = RegistryPda(admin) THEN Registry(admin, ToUint(0, U64_LIMBS))
                       ELSE registry[x]]
             ELSE registry
       /\ lastCall' = Call("initialize", result, admin, DefaultPubkey, NoArgs, NoOffer, 0)
       /\ UNCHANGED <<dataset, reputation, initial, successes, writers>>

\* --------------------------------------------------------- create_dataset
\* init_if_needed in place of init on the dataset account: an address in use
\* is accepted
CreateDataset_if_needed(admin, contributor) ==
    IF RegistryPda(admin) \notin DOMAIN registry THEN "AccountNotInitialized"
    ELSE IF ReputationPda(contributor) \notin DOMAIN reputation THEN "AccountNotInitialized"
    ELSE "Ok"

\* #[derive(Accounts)] struct CreateDataset: registry and reputation must be
\* initialised accounts at their seeds, dataset (`init`) must be a free address.
CreateDataset(admin, contributor) ==
    IF RegistryPda(admin) \notin DOMAIN registry THEN "AccountNotInitialized"
    ELSE IF ReputationPda(contributor) \notin DOMAIN reputation THEN "AccountNotInitialized"
    ELSE IF DatasetPda(contributor) \in DOMAIN dataset THEN "AccountAlreadyInUse"
    ELSE "Ok"

\* The accounts of CreateDataset written back when the handler returns Ok:
\* those declared `mut` or `init`.  `reputation` carries neither attribute.
Persisted == {"registry", "dataset"}

\* `<` in place of `<=` in the three require! lines
validate_exclusive(file_name, quality_score, file_size) ==
    IF ~(file_name.len < MAX_FILE_NAME_LEN) THEN "FileNameTooLong"
    ELSE IF ~(quality_score < MAX_QUALITY_SCORE) THEN "InvalidQualityScore"
    ELSE IF ~(file_size < MAX_FILE_SIZE) THEN "FileTooLarge"
    ELSE "Ok"

\* the quality_score line moved above the file_name line
validate_reordered(file_name, quality_score, file_size) ==
    IF ~(quality_score <= MAX_QUALITY_SCORE) THEN "InvalidQualityScore"
    ELSE IF ~(file_name.len <= MAX_FILE_NAME_LEN) THEN "FileNameTooLong"
    ELSE IF ~(file_size <= MAX_FILE_SIZE) THEN "FileTooLarge"
    ELSE "Ok"

\* the three require! lines
validate(file_name, quality_score, file_size) ==
    IF ~(file_name.len <= MAX_FILE_NAME_LEN) THEN "FileNameTooLong"
    ELSE IF ~(quality_score <= MAX_QUALITY_SCORE) THEN "InvalidQualityScore"
    ELSE IF ~(file_size <= MAX_FILE_SIZE) THEN "FileTooLarge"
    ELSE "Ok"

\* the four derived fields taken from the caller instead
new_dataset_offered(contributor, args, offered, now) ==
    [id               |-> DatasetPda(contributor),
     contributor      |-> contributor,
     content_hash     |-> args.content_hash,
     ai_metadata      |-> args.ai_metadata,
     file_name        |-> args.file_name,
     file_size        |-> args.file_size,
     data_uri         |-> args.data_uri,
     column_count     |-> args.column_count,
     row_count        |-> args.row_count,
     quality_score    |-> args.quality_score,
     upload_timestamp |-> offered.upload_timestamp,
     last_updated     |-> offered.last_updated,
     download_count   |-> offered.download_count,
     is_active        |-> offered.is_active,
     bump             |-> 253]

\* the field assignments of the handler
new_dataset(contributor, args, offered, now) ==
    [id               |-> DatasetPda(contributor),
     contributor      |-> contributor,
     content_hash     |-> args.content_hash,
     ai_metadata      |-> args.ai_metadata,
     file_name        |-> args.file_name,
     file_size        |-> args.file_size,
     data_uri         |-> args.data_uri,
     column_count     |-> args.column_count,
     row_count        |-> args.row_count,
     quality_score    |-> args.quality_score,
     upload_timestamp |-> now,
     last_updated     |-> <<>>,
     download_count   |-> 0,
     is_active        |-> TRUE,
     bump             |-> 253]

\* the incremented value dropped
increment_total_lost(total_datasets) == [some |-> TRUE, val |-> total_datasets]

\* registry.total_datasets.checked_add(1)
increment_total(total_datasets) == checked_add(total_datasets, ToUint(1, U64_LIMBS))

\* wrapping additions in place of the checked ones
update_reputation_wrapping(rep, contributor, quality_score) ==
    [result |-> "Ok",
     reputation |->
        [rep EXCEPT !.contributor = contributor,
                    !.total_uploads = wrapping_add(rep.total_uploads, ToUint(1, U32_LIMBS)),
                    !.total_quality_score =
                        wrapping_add(rep.total_quality_score,
                                     ToUint(quality_score, U64_LIMBS))]]

\* a reputation_score recomputed from the upload count next to the two counters
update_reputation_scoring(rep, contributor, quality_score) ==
    LET uploads == checked_add(rep.total_uploads, ToUint(1, U32_LIMBS))
        quality == checked_add(rep.total_quality_score, ToUint(quality_score, U64_LIMBS))
    IN  IF ~uploads.some THEN [result |-> "NumericalOverflow", reputation |-> rep]
        ELSE IF ~quality.some THEN [result |-> "NumericalOverflow", reputation |-> rep]
        ELSE [result |-> "Ok",
              reputation |-> [rep EXCEPT !.contributor = contributor,
                                         !.total_uploads = uploads.val,
                                         !.total_quality_score = quality.val,
                                         !.reputation_score = uploads.val]]

\* CreateDataset::update_reputation
update_reputation(rep, contributor, quality_score) ==
    LET uploads == checked_add(rep.total_uploads, ToUint(1, U32_LIMBS))
        quality == checked_add(rep.total_quality_score, ToUint(quality_score, U64_LIMBS))
    IN  IF ~uploads.some THEN [result |-> "NumericalOverflow", reputation |-> rep]
        ELSE IF ~quality.some THEN [result |-> "NumericalOverflow", reputation |-> rep]
        ELSE [result |-> "Ok",
              reputation |-> [rep EXCEPT !.contributor = contributor,
                                         !.total_uploads = uploads.val,
                                         !.total_quality_score = quality.val]]

\* CreateDataset::create_dataset on the deserialised accounts: the result and
\* the in-memory accounts when it returns.  `.unwrap()` on None panics.
handler(reg, rep, contributor, args, offered, now) ==
    LET v   == validate(args.file_name, args.quality_score, args.file_size)
        ds  == new_dataset(contributor, args, offered, now)
        inc == increment_total(reg.total_datasets)
        ur  == update_reputation(rep, contributor, args.quality_score)
    IN  IF v # "Ok"
        THEN [result |-> v, dataset |-> ds, registry |-> reg, reputation |-> rep]
        ELSE IF ~inc.some
        THEN [result |-> "ProgramFailedToComplete", dataset |-> ds,
              registry |-> reg, reputation |-> rep]
        ELSE [result     |-> ur.result,
              dataset    |-> ds,
              registry   |-> [reg EXCEPT !.total_datasets = inc.val],
              reputation |-> ur.reputation]

\* init_if_needed on the reputation account: a missing Reputation is created
\* empty and the handler runs on it
outcome_lazy(admin, contributor, args, offered, now) ==
    IF RegistryPda(admin) \notin DOMAIN registry THEN [result |-> "AccountNotInitialized"]
    ELSE IF DatasetPda(contributor) \in DOMAIN dataset THEN [result |-> "AccountAlreadyInUse"]
    ELSE handler(registry[RegistryPda(admin)],
                 IF ReputationPda(contributor) \in DOMAIN reputation
                 THEN reputation[ReputationPda(contributor)] ELSE FreshReputation,
                 contributor, args, offered, now)

\* The outcome of one create_dataset instruction in the current state.
outcome(admin, contributor, args, offered, now) ==
    IF CreateDataset(admin, contributor) # "Ok"
    THEN [result |-> CreateDataset(admin, contributor)]
    ELSE handler(registry[RegistryPda(admin)], reputation[ReputationPda(contributor)],
                 contributor, args, offered, now)

\* One create_dataset instruction: the accounts written back on Ok are those
\* in Persisted; on Err or panic the transaction commits nothing.
create_dataset(admin, user, contributor, args, offered, now) ==
    \E out \in {outcome(admin, contributor, args, offered, now)} :
       /\ lastCall' = Call("create_dataset", out.result, admin, contributor, args, offered, now)
       /\ IF out.result = "Ok"
          THEN /\ registry' =
                    IF "registry" \in Persisted
                    THEN [registry EXCEPT ![RegistryPda(admin)] = out.registry]
                    ELSE registry
               /\ dataset' =
                    IF "dataset" \in Persisted
                    THEN [x \in DOMAIN dataset \cup {DatasetPda(contributor)} |->
                              IF x = DatasetPda(contributor) THEN out.dataset ELSE dataset[x]]
                    ELSE dataset
               /\ reputation' =
                    IF "reputation" \in Persisted
                    THEN [reputation EXCEPT ![ReputationPda(contributor)] = out.reputation]
                    ELSE reputation
               /\ successes' = [successes EXCEPT ![RegistryPda(admin)] = @ + 1]
               /\ writers' =
                    [x \in Pdas |->
                        IF \/ x = RegistryPda(admin) /\ "registry" \in Persisted
                           \/ x = DatasetPda(contributor) /\ "dataset" \in Persisted
                           \/ x = ReputationPda(contributor) /\ "reputation" \in Persisted
                        THEN writers[x] \cup {[admin |-> admin, contributor |-> contributor]}
                        ELSE writers[x]]
          ELSE UNCHANGED <<registry, dataset, reputation, successes, writers>>
       /\ UNCHANGED initial

Next ==
    \/ \E admin \in Admins : initialize(admin)
    \/ \E admin \in Admins, user \in {FirstAdmin}, contributor \in Contributors,
          args \in Args, offered \in Offered, now \in Clocks :
            create_dataset(admin, user, contributor, args, offered, now)

Spec == Init /\ [][Next]_vars

SpecOverflow == InitOverflow /\ [][Next]_vars

\* ================================================================ properties
Store == <<registry, dataset, reputation>>

ValidationErrors == {"FileNameTooLong", "InvalidQualityScore", "FileTooLarge"}

\* The limits an argument record exceeds, by the error kind of each.
Violations(args) ==
    {k \in ValidationErrors :
        \/ k = "FileNameTooLong" /\ args.file_name.len > 100
        \/ k = "InvalidQualityScore" /\ args.quality_score > 100
        \/ k = "FileTooLarge" /\ args.file_size > 104857600}

\* The accounts of the call resolve: Registry and Reputation exist and the
\* Dataset address is free, so the handler body runs.
Reached(call) ==
    /\ RegistryPda(call.admin) \in DOMAIN registry
    /\ ReputationPda(call.contributor) \in DOMAIN reputation
    /\ DatasetPda(call.contributor) \notin DOMAIN dataset

RECURSIVE UintLeqFrom(_, _, _)
UintLeqFrom(a, b, i) ==
    IF i = 0 THEN TRUE
    ELSE IF a[i] # b[i] THEN a[i] < b[i]
    ELSE UintLeqFrom(a, b, i - 1)

UintLeq(a, b) == UintLeqFrom(a, b, Len(a))

RECURSIVE SumOf(_, _)
SumOf(f, S) ==
    IF S = {} THEN 0
    ELSE LET x == CHOOSE y \in S : TRUE IN f[x] + SumOf(f, S \ {x})

\* C1: a create_dataset call that reaches the handler with exactly one limit
\* exceeded (file_name > 100 bytes, quality_score > 100, file_size >
\* 104857600) returns that limit's error kind and leaves Registry, Reputation
\* and the Dataset records unchanged; with no limit exceeded (values at the
\* limits included) it returns no validation error.
C1_Step ==
    lastCall'.op = "create_dataset" /\ Reached(lastCall') =>
        /\ Cardinality(Violations(lastCall'.args)) = 1 =>
              /\ lastCall'.result \in Violations(lastCall'.args)
              /\ UNCHANGED Store
        /\ Violations(lastCall'.args) = {} => lastCall'.result \notin ValidationErrors

\* C1: every step of every behaviour satisfies C1_Step.
C1_SingleViolationRejected == [][C1_Step]_vars

C1_Witness ==
    /\ lastCall.op = "create_dataset"
    /\ lastCall.result = "FileTooLarge"
    /\ lastCall.args.file_name.len = 100
    /\ lastCall.args.quality_score = 100
    /\ lastCall.args.file_size = 104857601

\* C2: when a create_dataset call that reaches the handler exceeds more than
\* one limit, the error is that of the first failing check in the order
\* file_name, quality_score, file_size, and no record changes.
C2_Step ==
    lastCall'.op = "create_dataset" /\ Reached(lastCall')
        /\ Cardinality(Violations(lastCall'.args)) > 1 =>
        /\ lastCall'.result =
              IF lastCall'.args.file_name.len > 100 THEN "FileNameTooLong"
              ELSE "InvalidQualityScore"
        /\ UNCHANGED Store

\* C2: every step of every behaviour satisfies C2_Step.
C2_FirstFailingCheckWins == [][C2_Step]_vars

C2_Witness ==
    /\ lastCall.op = "create_dataset"
    /\ lastCall.result = "InvalidQualityScore"
    /\ lastCall.args.quality_score = 101
    /\ lastCall.args.file_size = 104857601

\* C3: the total_datasets of every Registry equals its initial value plus the
\* number of successful create_dataset calls under it, the Dataset records
\* number as many as those calls, each successful call adds exactly 1, a
\* failed call and initialize leave the counter alone, and it never decreases.
C3_Inv ==
    /\ \A x \in DOMAIN registry :
          /\ checked_add(initial[x], ToUint(successes[x], U64_LIMBS)).some
          /\ registry[x].total_datasets =
                checked_add(initial[x], ToUint(successes[x], U64_LIMBS)).val
    /\ Cardinality(DOMAIN dataset) = SumOf(successes, DOMAIN successes)

C3_Step ==
    /\ \A x \in DOMAIN registry :
          /\ x \in DOMAIN registry'
          /\ UintLeq(registry[x].total_datasets, registry'[x].total_datasets)
    /\ lastCall'.op = "create_dataset" /\ lastCall'.result = "Ok" =>
          /\ registry'[RegistryPda(lastCall'.admin)].total_datasets =
                checked_add(registry[RegistryPda(lastCall'.admin)].total_datasets,
                            ToUint(1, U64_LIMBS)).val
          /\ \A x \in DOMAIN registry :
                x # RegistryPda(lastCall'.admin) => registry'[x] = registry[x]
    /\ lastCall'.op = "create_dataset" /\ lastCall'.result # "Ok" => registry' = registry

\* C3: C3_Inv holds in every reachable state and C3_Step on every step.
C3_TotalCountsSuccesses == []C3_Inv /\ [][C3_Step]_vars

C3_Witness ==
    \E x \in DOMAIN registry :
        /\ successes[x] = 2
        /\ registry[x].total_datasets = ToUint(2, U64_LIMBS)
        /\ lastCall.op = "create_dataset"
        /\ lastCall.result # "Ok"

\* C4: every successful create_dataset by a contributor with quality score q
\* leaves the stored Reputation of that contributor with total_uploads one
\* higher and total_quality_score higher by q.
C4_Step ==
    lastCall'.op = "create_dataset" /\ lastCall'.result = "Ok" =>
        /\ reputation'[ReputationPda(lastCall'.contributor)].total_uploads =
              checked_add(reputation[ReputationPda(lastCall'.contributor)].total_uploads,
                          ToUint(1, U32_LIMBS)).val
        /\ reputation'[ReputationPda(lastCall'.contributor)].total_quality_score =
              checked_add(reputation[ReputationPda(lastCall'.contributor)].total_quality_score,
                          ToUint(lastCall'.args.quality_score, U64_LIMBS)).val

\* C4: every step of every behaviour satisfies C4_Step.
C4_ReputationCommitted == [][C4_Step]_vars

\* C5: a create_dataset call with valid inputs for a contributor whose
\* Registry and Reputation exist, with no counter at the top of its range,
\* succeeds and creates a new Dataset record, however many calls the same
\* contributor has made before.
C5_Step ==
    /\ lastCall'.op = "create_dataset"
    /\ Violations(lastCall'.args) = {}
    /\ RegistryPda(lastCall'.admin) \in DOMAIN registry
    /\ ReputationPda(lastCall'.contributor) \in DOMAIN reputation
    /\ checked_add(registry[RegistryPda(lastCall'.admin)].total_datasets,
                   ToUint(1, U64_LIMBS)).some
    /\ checked_add(reputation[ReputationPda(lastCall'.contributor)].total_uploads,
                   ToUint(1, U32_LIMBS)).some
    /\ checked_add(reputation[ReputationPda(lastCall'.contributor)].total_quality_score,
                   ToUint(lastCall'.args.quality_score, U64_LIMBS)).some
    => /\ lastCall'.result = "Ok"
       /\ Cardinality(DOMAIN dataset') = Cardinality(DOMAIN dataset) + 1

\* C5: every step of every behaviour satisfies C5_Step.
C5_SuccessiveCallsSucceed == [][C5_Step]_vars

\* C6: a create_dataset call that reaches the Reputation update (valid
\* inputs, Registry increment in range) with total_uploads + 1 or
\* total_quality_score + quality_score out of range returns NumericalOverflow
\* and changes no Dataset, Registry or Reputation record.
ReputationOverflows(call) ==
    \/ ~checked_add(reputation[ReputationPda(call.contributor)].total_uploads,
                    ToUint(1, U32_LIMBS)).some
    \/ ~checked_add(reputation[ReputationPda(call.contributor)].total_quality_score,
                    ToUint(call.args.quality_score, U64_LIMBS)).some

C6_Step ==
    /\ lastCall'.op = "create_dataset"
    /\ Reached(lastCall')
    /\ Violations(lastCall'.args) = {}
    /\ registry[RegistryPda(lastCall'.admin)].total_datasets # UintMaxMinus(0, U64_LIMBS)
    /\ ReputationOverflows(lastCall')
    => /\ lastCall'.result = "NumericalOverflow"
       /\ UNCHANGED Store

\* C6: every step of every behaviour satisfies C6_Step.
C6_ReputationOverflowAtomic == [][C6_Step]_vars

C6_Witness ==
    /\ lastCall.op = "create_dataset"
    /\ lastCall.result = "NumericalOverflow"
    /\ lastCall.args.quality_score = 100
    /\ reputation[ReputationPda(lastCall.contributor)].total_quality_score =
          UintMaxMinus(60, U64_LIMBS)
    /\ DatasetPda(lastCall.contributor) \notin DOMAIN dataset

\* C7: a create_dataset call that reaches the handler with valid inputs while
\* Registry.total_datasets is u64::MAX returns the error NumericalOverflow and
\* changes no record.
C7_Step ==
    /\ lastCall'.op = "create_dataset"
    /\ Reached(lastCall')
    /\ Violations(lastCall'.args) = {}
    /\ registry[RegistryPda(lastCall'.admin)].total_datasets = UintMaxMinus(0, U64_LIMBS)
    => /\ lastCall'.result = "NumericalOverflow"
       /\ UNCHANGED Store

\* C7: every step of every behaviour satisfies C7_Step.
C7_RegistryOverflowIsError == [][C7_Step]_vars

\* C8: every Dataset record has last_updated = None, download_count = 0 and
\* is_active = true, and the record of the call that just succeeded carries the
\* clock value read during that call, whatever the caller offered for these
\* four fields.
C8_DerivedFields ==
    /\ \A x \in DOMAIN dataset :
          /\ dataset[x].last_updated = <<>>
          /\ dataset[x].download_count = 0
          /\ dataset[x].is_active = TRUE
          /\ dataset[x].upload_timestamp \in Clocks
    /\ lastCall.op = "create_dataset" /\ lastCall.result = "Ok" =>
          /\ DatasetPda(lastCall.contributor) \in DOMAIN dataset
          /\ dataset[DatasetPda(lastCall.contributor)].upload_timestamp = lastCall.now

C8_Witness ==
    /\ lastCall.op = "create_dataset"
    /\ lastCall.result = "Ok"
    /\ lastCall.now = 2
    /\ lastCall.offered.upload_timestamp # lastCall.now
    /\ lastCall.offered.is_active = FALSE
    /\ dataset[DatasetPda(lastCall.contributor)].upload_timestamp = 2

\* C9: initialize for an admin without a Registry succeeds and creates one
\* owned by that admin with total_datasets 0; initialize for an admin that has
\* one fails and changes no Registry; no step removes a Registry or changes
\* its owner.
C9_Step ==
    /\ lastCall'.op = "initialize" =>
          IF RegistryPda(lastCall'.admin) \in DOMAIN registry
          THEN lastCall'.result # "Ok" /\ registry' = registry
          ELSE /\ lastCall'.result = "Ok"
               /\ RegistryPda(lastCall'.admin) \in DOMAIN registry'
               /\ registry'[RegistryPda(lastCall'.admin)].owner = lastCall'.admin
               /\ registry'[RegistryPda(lastCall'.admin)].total_datasets =
                     ToUint(0, U64_LIMBS)
               /\ \A x \in DOMAIN registry : registry'[x] = registry[x]
    /\ \A x \in DOMAIN registry :
          /\ x \in DOMAIN registry'
          /\ registry'[x].owner = registry[x].owner

C10_NoSharedRecord ==
    \A x \in Pdas : \A k1, k2 \in writers[x] : k1.contributor = k2.contributor

\* C10 amended: the only account written by the calls of two different
\* contributors is the Registry of the admin both calls name; Dataset and
\* Reputation accounts are written for one contributor only, and the shared
\* counter has lost none of the increments.
C10_OnlyRegistryShared ==
    /\ \A x \in Pdas : \A k1, k2 \in writers[x] :
          k1.contributor # k2.contributor =>
              /\ k1.admin = k2.admin
              /\ x = RegistryPda(k1.admin)
    /\ \A x \in DOMAIN registry :
          Cardinality(writers[x]) > 1 =>
              registry[x].total_datasets =
                  checked_add(initial[x], ToUint(Cardinality(writers[x]), U64_LIMBS)).val

C10_Witness ==
    \E x \in DOMAIN registry :
        \E k1, k2 \in writers[x] :
            /\ k1.contributor # k2.contributor
            /\ registry[x].total_datasets = ToUint(2, U64_LIMBS)

\* C11: no step (initialize or create_dataset, successful or failed, for any
\* contributor) removes a Dataset record or changes its id, contributor,
\* content_hash or upload_timestamp.
C11_Step ==
    \A x \in DOMAIN dataset :
        /\ x \in DOMAIN dataset'
        /\ dataset'[x].id = dataset[x].id
        /\ dataset'[x].contributor = dataset[x].contributor
        /\ dataset'[x].content_hash = dataset[x].content_hash
        /\ dataset'[x].upload_timestamp = dataset[x].upload_timestamp

\* C11: every step of every behaviour satisfies C11_Step.
C11_DatasetIdentityImmutable == [][C11_Step]_vars

\* A later valid call for the same contributor, at another clock value, has
\* been processed and the record still carries its first timestamp.
C11_Witness ==
    /\ lastCall.op = "create_dataset"
    /\ Violations(lastCall.args) = {}
    /\ DatasetPda(lastCall.contributor) \in DOMAIN dataset
    /\ dataset[DatasetPda(lastCall.contributor)].upload_timestamp # lastCall.now
    /\ Cardinality(DOMAIN dataset) = 2

\* C12: a create_dataset call with valid inputs whose admin has no Registry
\* or whose contributor has no Reputation fails and creates no Dataset,
\* Registry or Reputation record; no create_dataset call, whatever its
\* outcome, brings a Registry or a Reputation into existence.
C12_Step ==
    lastCall'.op = "create_dataset" =>
        /\ DOMAIN registry' = DOMAIN registry
        /\ DOMAIN reputation' = DOMAIN reputation
        /\ (/\ Violations(lastCall'.args) = {}
            /\ \/ RegistryPda(lastCall'.admin) \notin DOMAIN registry
               \/ ReputationPda(lastCall'.contributor) \notin DOMAIN reputation)
           => /\ lastCall'.result # "Ok"
              /\ UNCHANGED Store

\* C12: every step of every behaviour satisfies C12_Step.
C12_NoLazyAggregates == [][C12_Step]_vars

\* A valid call under an existing Registry for a contributor without a
\* Reputation has been rejected.
C12_Witness ==
    /\ lastCall.op = "create_dataset"
    /\ Violations(lastCall.args) = {}
    /\ lastCall.result = "AccountNotInitialized"
    /\ RegistryPda(lastCall.admin) \in DOMAIN registry
    /\ ReputationPda(lastCall.contributor) \notin DOMAIN reputation
    /\ DatasetPda(lastCall.contributor) \notin DOMAIN dataset

\* The fields of a Reputation that create_dataset is to leave alone agree in
\* a and b: the four reserved ones, the bump, and the contributor identity
\* when a records one.
ReputationFrame(a, b) ==
    /\ b.total_downloads = a.total_downloads
    /\ b.total_citations = a.total_citations
    /\ b.reputation_score = a.reputation_score
    /\ b.download_time = a.download_time
    /\ b.bump = a.bump
    /\ a.contributor # DefaultPubkey => b.contributor = a.contributor

\* C13: a successful create_dataset adds the Dataset at the contributor's
\* address and nothing else to the datasets, keeps every existing Dataset,
\* every other Registry and every other Reputation as it was, keeps owner and
\* bump of the admin's Registry, and keeps the reserved fields and a recorded
\* contributor identity of the contributor's Reputation, both in the stored
\* account and in the account as update_reputation leaves it in memory.
C13_Step ==
    (lastCall'.op = "create_dataset" /\ lastCall'.result = "Ok") =>
        LET r == RegistryPda(lastCall'.admin)
            d == DatasetPda(lastCall'.contributor)
            p == ReputationPda(lastCall'.contributor)
            out == outcome(lastCall'.admin, lastCall'.contributor, lastCall'.args,
                           lastCall'.offered, lastCall'.now)
        IN  /\ DOMAIN registry' = DOMAIN registry
            /\ \A x \in DOMAIN registry \ {r} : registry'[x] = registry[x]
            /\ registry'[r].owner = registry[r].owner
            /\ registry'[r].bump = registry[r].bump
            /\ DOMAIN dataset' = DOMAIN dataset \cup {d}
            /\ \A x \in DOMAIN dataset \ {d} : dataset'[x] = dataset[x]
            /\ DOMAIN reputation' = DOMAIN reputation
            /\ \A x \in DOMAIN reputation \ {p} : reputation'[x] = reputation[x]
            /\ ReputationFrame(reputation[p], reputation'[p])
            /\ ReputationFrame(reputation[p], out.reputation)

\* C13: every step of every behaviour satisfies C13_Step.
C13_SuccessFrame == [][C13_Step]_vars

\* A create_dataset has succeeded for a contributor whose Reputation records
\* an identity and non-zero reserved fields, under a Registry with an owner.
C13_Witness ==
    /\ lastCall.op = "create_dataset"
    /\ lastCall.result = "Ok"
    /\ reputation[ReputationPda(lastCall.contributor)].contributor = lastCall.contributor
    /\ reputation[ReputationPda(lastCall.contributor)].reputation_score = ToUint(5, U32_LIMBS)
    /\ registry[RegistryPda(lastCall.admin)].owner = lastCall.admin
    /\ registry[RegistryPda(lastCall.admin)].total_datasets # ToUint(0, U64_LIMBS)
    /\ dataset[DatasetPda(lastCall.contributor)].contributor = lastCall.contributor

\* C14: every Dataset record sits at the address made of the dataset seed and
\* its own contributor and carries that address as its id, so no contributor
\* has two.
C14_Inv ==
    /\ \A x \in DOMAIN dataset :
          /\ x = <<"dataset", dataset[x].contributor>>
          /\ dataset[x].id = x
    /\ \A c \in Contributors :
          Cardinality({x \in DOMAIN dataset : dataset[x].contributor = c}) <= 1

\* C14: a create_dataset call for a contributor who has a Dataset record is
\* rejected and leaves every Dataset, Registry and Reputation as it was.
C14_Step ==
    (/\ lastCall'.op = "create_dataset"
     /\ \E x \in DOMAIN dataset : dataset[x].contributor = lastCall'.contributor)
    => /\ lastCall'.result # "Ok"
       /\ UNCHANGED Store

\* C14: C14_Inv holds in every reachable state and every step satisfies
\* C14_Step.
C14_OneDatasetPerContributor == []C14_Inv /\ [][C14_Step]_vars

\* A valid second call for a contributor, with every account of the first
\* call in place, has been rejected because the Dataset address is in use.
C14_Witness ==
    /\ lastCall.op = "create_dataset"
    /\ lastCall.result = "AccountAlreadyInUse"
    /\ Violations(lastCall.args) = {}
    /\ \E x \in DOMAIN dataset : dataset[x].contributor = lastCall.contributor
    /\ registry[RegistryPda(lastCall.admin)].total_datasets = ToUint(1, U64_LIMBS)

====
